---------------------------- MODULE Spec2Model ----------------------------
(***************************************************************************)
(* Model of visualizacion_locales_movil5.1.py: the Streamlit script that   *)
(* loads the Madrid business registry, completes missing coordinates from  *)
(* boundary centroids and ranks areas by competition for one activity.     *)
(*                                                                         *)
(* Text is a sequence of Unicode code points (32 = space, 65 = "A",        *)
(* 97 = "a", 180 = acute accent U+00B4, 225 = a-acute U+00E1,              *)
(* 769 = combining acute U+0301).  A missing text value (None / NaN) is    *)
(* the sequence <<-1>>, which holds no code point.  A number is an exact   *)
(* rational <<num, den>> with den > 0, and the float NaN is <<0, 0>>.      *)
(***************************************************************************)
EXTENDS Integers, Sequences, FiniteSets, TLC

VARIABLES
    \* --- normalize_str applied to one text value and to its own result
    nx, ny, nz, npc,
    \* --- the environment of the script
    csv_file,          \* the local dataset file: "absent", "empty" or "present"
    csv,               \* the rows load_data read from it
    barrios_file,      \* assets/barrios_madrid.geojson
    distritos_file,    \* assets/distritos_madrid.geojson
    \* --- the Streamlit process: position in the script, memo caches, counters
    pc,
    runs,              \* script runs started so far
    ensure_cache,      \* ensure_dataset_available() has a memoized value
    load_cache,        \* the memo of load_data: [hit, value]
    computed,          \* how often the body of each expensive step has run
    \* --- locals of download_csv_from_drive
    dl_log,            \* the attempts made by the current call, in order
    success,
    \* --- globals of one script run
    df,
    barrios_index,
    distritos_index,
    actividad_sel,
    opcion,
    grupo_barrio,
    grupo_distrito,
    tabla_op,
    df_plot,           \* the records of the selected activity
    pintar,            \* the choropleth granularity chosen in the sidebar
    show_points,       \* the point-display checkbox
    mapa               \* the folium map m: its choropleth layer and its markers

normVars == <<nx, ny, nz, npc>>
envVars == <<csv_file, csv, barrios_file, distritos_file>>
procVars == <<pc, runs, ensure_cache, load_cache, computed>>
dlVars == <<dl_log, success>>
mapVars == <<df_plot, pintar, show_points, mapa>>
runVars == <<df, barrios_index, distritos_index, actividad_sel, opcion,
             grupo_barrio, grupo_distrito, tabla_op, mapVars>>
appVars == <<envVars, procVars, dlVars, runVars>>
vars == <<normVars, appVars>>

\* a missing text value (None, or the NaN pandas reads for an empty cell)
None == <<-1>>

\* the float NaN, and pd.isna / Series.isna of a number
NaN == <<0, 0>>
IsNaN(x) == x[2] = 0

(***************************************************************************)
(* Bounds of the model.                                                    *)
(***************************************************************************)
MaxStrLen == 3
MaxRecords == 2
MaxRuns == 2
MaxAreas == 6
MaxCount == 3

\* program constant: the byte size a downloaded file must exceed
MinBytes == 1000000

(***************************************************************************)
(* Generic helpers.                                                        *)
(***************************************************************************)
SeqsUpTo(S, n) == UNION {[1..k -> S] : k \in 0..n}

RECURSIVE Flatten(_)
Flatten(ss) ==
    IF ss = <<>> THEN <<>> ELSE Head(ss) \o Flatten(Tail(ss))

(***************************************************************************)
(* normalize_str (src lines 107-112).                                      *)
(***************************************************************************)
\* str.isspace() of one code point, as str.strip() uses it
IsSpace(c) == c \in {32, 160}

\* unicodedata.normalize("NFKD", .) of one code point
Decomp(c) ==
    CASE c = 225 -> <<97, 769>>      \* a-acute      -> a + combining acute
      [] c = 193 -> <<65, 769>>      \* A-acute      -> A + combining acute
      [] c = 180 -> <<32, 769>>      \* acute accent -> space + combining acute
      [] c = 160 -> <<32>>           \* no-break space -> space
      [] OTHER   -> <<c>>

\* unicodedata.combining(ch) != 0
Combining(c) == c = 769

\* str.upper() of one code point
UpperChar(c) ==
    CASE c \in 97..122 -> c - 32
      [] c = 225       -> 193
      [] OTHER         -> c

RECURSIVE LStrip(_)
LStrip(s) ==
    IF s # <<>> /\ IsSpace(Head(s)) THEN LStrip(Tail(s)) ELSE s

RECURSIVE RStrip(_)
RStrip(s) ==
    IF s # <<>> /\ IsSpace(s[Len(s)]) THEN RStrip(SubSeq(s, 1, Len(s) - 1)) ELSE s

\* str(s).strip()
Strip(s) == RStrip(LStrip(s))

NFKD(s) == Flatten([i \in 1..Len(s) |-> Decomp(s[i])])

RemoveCombining(s) == SelectSeq(s, LAMBDA ch : ~Combining(ch))

Upper(s) == [i \in 1..Len(s) |-> UpperChar(s[i])]

normalize_str(s) ==
    IF s = None THEN <<>>
    ELSE Upper(RemoveCombining(NFKD(Strip(s))))

(***************************************************************************)
(* Exact arithmetic on the floats the script computes: a number is         *)
(* <<num, den>> in lowest terms with den > 0.                              *)
(***************************************************************************)
RECURSIVE Gcd(_, _)
Gcd(a, b) == IF b = 0 THEN a ELSE Gcd(b, a % b)

Abs(x) == IF x < 0 THEN -x ELSE x

Rat(n, d) ==
    LET g == Gcd(Abs(n), d) IN <<n \div g, d \div g>>

Num(n) == <<n, 1>>

RatLess(a, b) == a[1] * b[2] < b[1] * a[2]
RatLeq(a, b) == a[1] * b[2] <= b[1] * a[2]

MaxOf(S) == CHOOSE x \in S : \A y \in S : y <= x

Min2(a, b) == IF a <= b THEN a ELSE b

\* the values of an integer sequence in ascending order
RECURSIVE SortInts(_)
SortInts(s) ==
    IF s = <<>> THEN <<>>
    ELSE LET i == CHOOSE k \in 1..Len(s) : \A j \in 1..Len(s) : s[k] <= s[j]
         IN <<s[i]>> \o SortInts(SubSeq(s, 1, i - 1) \o SubSeq(s, i + 1, Len(s)))

\* the first occurrence of every element, in order (algos.unique)
RECURSIVE Unique(_)
Unique(s) ==
    IF s = <<>> THEN <<>>
    ELSE LET r == Unique(SubSeq(s, 1, Len(s) - 1))
             x == s[Len(s)]
         IN IF \E i \in 1..Len(r) : r[i] = x THEN r ELSE Append(r, x)

(***************************************************************************)
(* pandas Series.quantile / Series.median / pd.qcut on a series of         *)
(* integer counts, as quantile_labels calls them (src lines 147-174).      *)
(***************************************************************************)
\* Series.nunique()
nunique(s) == Cardinality({s[i] : i \in 1..Len(s)})

\* Series.quantile(q) for q = <<num, den>> on the sorted values v: linear
\* interpolation between the order statistics at position (n - 1) * q
QuantileOfSorted(v, q) ==
    LET h    == (Len(v) - 1) * q[1]
        i    == h \div q[2]
        frac == h % q[2]
    IN IF frac = 0 THEN Num(v[i + 1])
       ELSE Rat(v[i + 1] * q[2] + (v[i + 2] - v[i + 1]) * frac, q[2])

quantile(s, q) == QuantileOfSorted(SortInts(s), q)

\* Series.median()
median(s) == quantile(s, <<1, 2>>)

\* np.linspace(0, 1, q + 1), the quantiles of an integer q
Linspace(q) == [k \in 1..(q + 1) |-> <<k - 1, q>>]

\* bins.searchsorted(x, side="left"): the number of edges below x
SearchSortedLeft(bins, x) ==
    Cardinality({k \in 1..Len(bins) : RatLess(bins[k], Num(x))})

\* pd.qcut(s, q=qs, duplicates="drop", labels=labels): the value returned, or
\* raised = TRUE for the ValueError "Bin labels must be one fewer than the
\* number of bin edges".  A row outside every bin gets the label "NaN".
qcut(s, qs, labels) ==
    LET v      == SortInts(s)
        edges  == [k \in 1..Len(qs) |-> QuantileOfSorted(v, qs[k])]
        uniq   == Unique(edges)
        bins   == IF Len(uniq) < Len(edges) /\ Len(edges) # 2 THEN uniq ELSE edges
        id(x)  == IF Num(x) = bins[1] THEN 1 ELSE SearchSortedLeft(bins, x)
        na(x)  == id(x) = Len(bins) \/ id(x) = 0
    IN IF Len(labels) # Len(bins) - 1
       THEN [raised |-> TRUE, val |-> <<>>]
       ELSE [raised |-> FALSE,
             val |-> [i \in 1..Len(s) |-> IF na(s[i]) THEN "NaN" ELSE labels[id(s[i])]]]

Returned(v) == [raised |-> FALSE, val |-> v]

\* mutant of MedianSplit: the two labels are exchanged
MedianSplit_Exchanged(s) ==
    LET median_val == median(s)
    IN [i \in 1..Len(s) |-> IF RatLeq(Num(s[i]), median_val) THEN "Alta" ELSE "Baja"]

\* the lambda of src lines 161 and 174
MedianSplit(s) ==
    LET median_val == median(s)
    IN [i \in 1..Len(s) |-> IF RatLeq(Num(s[i]), median_val) THEN "Baja" ELSE "Alta"]

\* the lambda of src line 165
TertileSplit(s) ==
    LET q33 == quantile(s, <<33, 100>>)
        q67 == quantile(s, <<67, 100>>)
    IN [i \in 1..Len(s) |->
           IF RatLeq(Num(s[i]), q33) THEN "Muy baja"
           ELSE IF RatLeq(Num(s[i]), q67) THEN "Baja" ELSE "Media"]

\* mutant of FewerBins: no inner except, the ValueError propagates
FewerBins_NoExcept(s) ==
    LET unique_vals == nunique(s)
    IN qcut(s, Linspace(Min2(unique_vals, 3)),
            SubSeq(<<"Baja", "Media", "Alta">>, 1, Min2(unique_vals - 1, 3)))

\* the inner try/except of src lines 168-174
FewerBins(s) ==
    LET unique_vals == nunique(s)
        r == qcut(s, Linspace(Min2(unique_vals, 3)),
                  SubSeq(<<"Baja", "Media", "Alta">>, 1, Min2(unique_vals - 1, 3)))
    IN IF r.raised THEN Returned(MedianSplit(s)) ELSE r

\* mutant of Fallback: the tertile rung takes every series with three or more
\* distinct values
Fallback_TertilesForMore(s) ==
    LET unique_vals == nunique(s)
    IN IF unique_vals = 2 THEN Returned(MedianSplit(s))
       ELSE IF unique_vals >= 3 THEN Returned(TertileSplit(s))
       ELSE FewerBins(s)

\* the except branch of src lines 156-174
Fallback(s) ==
    LET unique_vals == nunique(s)
    IN IF unique_vals = 2 THEN Returned(MedianSplit(s))
       ELSE IF unique_vals = 3 THEN Returned(TertileSplit(s))
       ELSE FewerBins(s)

\* mutant of quantile_labels: the guard lets a constant series through
quantile_labels_NoGuard(s) ==
    LET q      == <<<<0, 1>>, <<1, 4>>, <<1, 2>>, <<3, 4>>, <<1, 1>>>>
        labels == <<"Muy baja", "Baja", "Media", "Alta">>
    IN IF nunique(s) < 1 THEN Returned([i \in 1..Len(s) |-> "Sin datos"])
       ELSE LET r == qcut(s, q, SubSeq(labels, 1, Len(q) - 1))
            IN IF r.raised THEN Fallback(s) ELSE r

quantile_labels(s) ==
    LET q      == <<<<0, 1>>, <<1, 4>>, <<1, 2>>, <<3, 4>>, <<1, 1>>>>
        labels == <<"Muy baja", "Baja", "Media", "Alta">>
    IN IF nunique(s) <= 1 THEN Returned([i \in 1..Len(s) |-> "Sin datos"])
       ELSE LET r == qcut(s, q, SubSeq(labels, 1, Len(q) - 1))
            IN IF r.raised THEN Fallback(s) ELSE r

(***************************************************************************)
(* Text order and dictionaries.                                            *)
(***************************************************************************)
\* Python's str <: lexicographic by code point
RECURSIVE StrLess(_, _)
StrLess(a, b) ==
    IF b = <<>> THEN FALSE
    ELSE IF a = <<>> THEN TRUE
    ELSE IF Head(a) # Head(b) THEN Head(a) < Head(b)
    ELSE StrLess(Tail(a), Tail(b))

\* sorted(S) for a set of text values
RECURSIVE SortNames(_)
SortNames(S) ==
    IF S = {} THEN <<>>
    ELSE LET m == CHOOSE x \in S : \A y \in S \ {x} : StrLess(x, y)
         IN <<m>> \o SortNames(S \ {m})

\* a dict is the sequence of its [key, value] items in insertion order
Keys(dict) == {dict[i].key : i \in 1..Len(dict)}

Get(dict, k) == (CHOOSE i \in 1..Len(dict) : dict[i].key = k)

DictSet(dict, k, v) ==
    IF k \in Keys(dict)
    THEN [i \in 1..Len(dict) |-> IF dict[i].key = k THEN [key |-> k, value |-> v] ELSE dict[i]]
    ELSE Append(dict, [key |-> k, value |-> v])

(***************************************************************************)
(* feature_centroid (src lines 176-189).  A geometry is [type,             *)
(* coordinates]; a Polygon's coordinates are a sequence of rings, a        *)
(* MultiPolygon's a sequence of polygons, a ring a sequence of <<x, y>>.   *)
(***************************************************************************)
RatAdd(a, b) == Rat(a[1] * b[2] + b[1] * a[2], a[2] * b[2])

RECURSIVE RatSum(_)
RatSum(xs) == IF xs = <<>> THEN Num(0) ELSE RatAdd(Head(xs), RatSum(Tail(xs)))

\* ndarray.mean() of one column; NaN when a vertex holds NaN
Mean(xs) ==
    IF \E i \in 1..Len(xs) : IsNaN(xs[i]) THEN NaN
    ELSE LET t == RatSum(xs) IN Rat(t[1], t[2] * Len(xs))

\* lat, lon of the vertex mean of one ring; indexing an empty array raises
RingCentroid(ring) ==
    IF ring = <<>> THEN [lat |-> NaN, lon |-> NaN]
    ELSE [lat |-> Mean([i \in 1..Len(ring) |-> ring[i][2]]),
          lon |-> Mean([i \in 1..Len(ring) |-> ring[i][1]])]

feature_centroid(feat) ==
    LET geom == feat.geometry
        c    == geom.coordinates
        undef == [lat |-> NaN, lon |-> NaN]
    IN IF geom.type = "Polygon"
       THEN IF Len(c) = 0 THEN undef ELSE RingCentroid(c[1])
       ELSE IF geom.type = "MultiPolygon"
       THEN IF Len(c) = 0 \/ Len(c[1]) = 0 THEN undef ELSE RingCentroid(c[1][1])
       ELSE undef

(***************************************************************************)
(* load_geojson (src lines 133-145).  A boundary file is [state,           *)
(* features]; a feature is [name, geometry], name being the value of its   *)
(* NOMBRE property (None: the feature has no property).                    *)
(***************************************************************************)
RECURSIVE IndexFeatures(_)
IndexFeatures(feats) ==
    IF feats = <<>> THEN <<>>
    ELSE LET rest == IndexFeatures(SubSeq(feats, 1, Len(feats) - 1))
             feat == feats[Len(feats)]
         IN IF feat.name = None THEN rest
            ELSE DictSet(rest, normalize_str(feat.name), feat)

\* the pair geo, name_to_feature; or raised: json.load fails on the content
load_geojson(file) ==
    IF file.state = "absent"
    THEN [raised |-> FALSE, isNone |-> TRUE, geo |-> <<>>, items |-> <<>>]
    ELSE IF file.state = "unparseable"
    THEN [raised |-> TRUE, isNone |-> TRUE, geo |-> <<>>, items |-> <<>>]
    ELSE [raised |-> FALSE, isNone |-> FALSE, geo |-> file.features,
          items |-> IndexFeatures(file.features)]

\* truth value of an index: None and {} are both false
Truthy(index) == ~index.isNone /\ index.items # <<>>

(***************************************************************************)
(* load_data (src lines 637-692): coordinates to numbers, text columns     *)
(* normalized.                                                             *)
(***************************************************************************)
load_data(rows) ==
    [i \in 1..Len(rows) |->
        [desc_epigrafe       |-> normalize_str(rows[i].desc_epigrafe),
         desc_barrio_local   |-> normalize_str(rows[i].desc_barrio_local),
         desc_distrito_local |-> normalize_str(rows[i].desc_distrito_local),
         lat                 |-> rows[i].lat,
         lon                 |-> rows[i].lon]]

(***************************************************************************)
(* Coordinate completion (src lines 708-739).                              *)
(***************************************************************************)
\* df["lat"].isna() | df["lon"].isna()
Missing(r) == IsNaN(r.lat) \/ IsNaN(r.lon)

\* src lines 717-720 and 732-735: the centroid looked up for one record
LookupCentroid(r, index, col) ==
    LET name == normalize_str(r[col])
    IN IF name # <<>> /\ name \in Keys(index.items)
       THEN feature_centroid(index.items[Get(index.items, name)].value)
       ELSE [lat |-> NaN, lon |-> NaN]

\* mutant of Filled: only the latitude is tested
Filled_LatOnly(c) == ~IsNaN(c.lat)

\* src lines 722 and 737
Filled(c) == ~IsNaN(c.lat) /\ ~IsNaN(c.lon)

\* mutant of FillStage: the stage runs over every record, not over the mask
FillStage_Unmasked(d, index, col) ==
    [i \in 1..Len(d) |->
        IF Filled(LookupCentroid(d[i], index, col))
        THEN [d[i] EXCEPT !.lat = LookupCentroid(d[i], index, col).lat,
                          !.lon = LookupCentroid(d[i], index, col).lon]
        ELSE d[i]]

\* src lines 714-724 and 729-739: one stage over the records of the mask
FillStage(d, index, col) ==
    [i \in 1..Len(d) |->
        IF Missing(d[i]) /\ Filled(LookupCentroid(d[i], index, col))
        THEN [d[i] EXCEPT !.lat = LookupCentroid(d[i], index, col).lat,
                          !.lon = LookupCentroid(d[i], index, col).lon]
        ELSE d[i]]

AnyMissing(d) == \E i \in 1..Len(d) : Missing(d[i])

\* src lines 708-724: the outer guard and the barrio stage
FillBarrioStage(d, bi, di) ==
    IF AnyMissing(d) /\ (Truthy(bi) \/ Truthy(di)) /\ Truthy(bi)
    THEN FillStage(d, bi, "desc_barrio_local")
    ELSE d

\* mutant of FillDistritoStage: the mask is not recomputed, every record with
\* a distrito centroid is written
FillDistritoStage_NoMask(d, bi, di) ==
    IF Truthy(di)
    THEN [i \in 1..Len(d) |->
            IF Filled(LookupCentroid(d[i], di, "desc_distrito_local"))
            THEN [d[i] EXCEPT
                    !.lat = LookupCentroid(d[i], di, "desc_distrito_local").lat,
                    !.lon = LookupCentroid(d[i], di, "desc_distrito_local").lon]
            ELSE d[i]]
    ELSE d

\* mutant of FillDistritoStage: the stage sits inside "if barrios_index:"
FillDistritoStage_NeedsBarrios(d, bi, di) ==
    IF AnyMissing(d) /\ Truthy(di) /\ Truthy(bi)
    THEN FillStage(d, di, "desc_distrito_local")
    ELSE d

\* src lines 727-739: the distrito stage; its guard implies the outer one
FillDistritoStage(d, bi, di) ==
    IF AnyMissing(d) /\ Truthy(di)
    THEN FillStage(d, di, "desc_distrito_local")
    ELSE d

(***************************************************************************)
(* Sidebar, activity filter and aggregation (src lines 758-789).           *)
(***************************************************************************)
\* src lines 758-759
Actividades(d) ==
    {d[i].desc_epigrafe : i \in 1..Len(d)}
        \ {x \in {d[i].desc_epigrafe : i \in 1..Len(d)} :
              Strip(x) = <<>> \/ x = <<78, 65, 78>>}

\* src line 779
FilterActivity(d, sel) ==
    SelectSeq(d, LAMBDA r : r.desc_epigrafe = normalize_str(sel))

\* groupby(col).size() as a dict in key order
RECURSIVE CountItems(_, _, _)
CountItems(names, d, col) ==
    IF names = <<>> THEN <<>>
    ELSE <<[key |-> Head(names),
            value |-> Cardinality({i \in 1..Len(d) : d[i][col] = Head(names)})]>>
         \o CountItems(Tail(names), d, col)

GroupSize(d, col) ==
    CountItems(SortNames({d[i][col] : i \in 1..Len(d)}), d, col)

\* the n_locales column of an aggregation
Values(dict) == [i \in 1..Len(dict) |-> dict[i].value]

(***************************************************************************)
(* The map (src lines 794-866): the choropleth layer and the markers.      *)
(***************************************************************************)
\* folium.Choropleth(geo_data, data, columns, key_on) of src lines 809-818 and
\* 826-835: a feature is filled by the count whose key equals the value of the
\* feature's NOMBRE property as the file holds it; a feature whose value is no
\* key of the data (or that has no such property) gets the nan fill
Choropleth(geo, data) ==
    [k \in 1..Len(geo) |->
        IF geo[k].name \in Keys(data)
        THEN [name |-> geo[k].name, filled |-> TRUE,
              n_locales |-> data[Get(data, geo[k].name)].value]
        ELSE [name |-> geo[k].name, filled |-> FALSE, n_locales |-> 0]]

\* src lines 803 and 820: the layer the script draws, "none" when the chosen
\* granularity has no boundary file or no count
LayerDrawn(choice, bi, di, gb, gd) ==
    IF choice = "Barrio" /\ ~bi.isNone /\ gb # <<>> THEN "Barrio"
    ELSE IF choice = "Distrito" /\ ~di.isNone /\ gd # <<>> THEN "Distrito"
    ELSE "none"

\* src lines 804-805 and 821-822: comp["nivel"] of the layer drawn
Nivel(layer, gb, gd) ==
    IF layer = "Barrio" THEN quantile_labels(Values(gb))
    ELSE IF layer = "Distrito" THEN quantile_labels(Values(gd))
    ELSE Returned(<<>>)

\* src lines 838-864: one marker for each selected record with both coordinates
Markers(points, plot) ==
    IF points THEN SelectSeq(plot, LAMBDA r : ~Missing(r)) ELSE <<>>

\* src lines 794-866
BuildMap(choice, points, plot, bi, di, gb, gd) ==
    LET layer == LayerDrawn(choice, bi, di, gb, gd)
    IN [layer   |-> layer,
        shapes  |-> IF layer = "Barrio" THEN Choropleth(bi.geo, gb)
                    ELSE IF layer = "Distrito" THEN Choropleth(di.geo, gd)
                    ELSE <<>>,
        markers |-> Markers(points, plot)]

(***************************************************************************)
(* compute_opportunities (src lines 869-902).                              *)
(***************************************************************************)
LevelCol(level) ==
    IF level = "Barrio" THEN "desc_barrio_local" ELSE "desc_distrito_local"

\* mutant of RowLess: ties are ordered by area name descending
RowLess_NameDescending(r1, r2) ==
    \/ r1.n_locales < r2.n_locales
    \/ r1.n_locales = r2.n_locales /\ StrLess(r2.area, r1.area)

RowLess(r1, r2) ==
    \/ r1.n_locales < r2.n_locales
    \/ r1.n_locales = r2.n_locales /\ StrLess(r1.area, r2.area)

\* sort_values(["n_locales", level_col], ascending=[True, True])
RECURSIVE SortRows(_)
SortRows(rows) ==
    IF rows = <<>> THEN <<>>
    ELSE LET i == CHOOSE k \in 1..Len(rows) :
                      \A j \in 1..Len(rows) : j = k \/ ~RowLess(rows[j], rows[k])
         IN <<rows[i]>> \o SortRows(SubSeq(rows, 1, i - 1) \o SubSeq(rows, i + 1, Len(rows)))

\* src lines 873-879
AllAreas(d, level) ==
    SortNames({d[i][LevelCol(level)] : i \in 1..Len(d)} \ {None})

\* src lines 890-891: the left merge and fillna(0)
MergeCounts(all_areas, existing) ==
    [i \in 1..Len(all_areas) |->
        IF all_areas[i] \in Keys(existing)
        THEN existing[Get(existing, all_areas[i])].value
        ELSE 0]

\* src lines 894-897
Categoria(n_locales) ==
    IF Len(n_locales) > 0 /\ MaxOf({n_locales[i] : i \in 1..Len(n_locales)}) > 0
    THEN quantile_labels(n_locales)
    ELSE Returned([i \in 1..Len(n_locales) |-> "Sin datos"])

\* mutant of compute_opportunities: an inner merge, areas without a business
\* of the activity are dropped
compute_opportunities_InnerMerge(level, d, gb, gd) ==
    LET existing  == IF level = "Barrio" THEN gb ELSE gd
        all_areas == SelectSeq(AllAreas(d, level), LAMBDA a : a \in Keys(existing))
        n_locales == MergeCounts(all_areas, existing)
        cat       == Categoria(n_locales)
    IN IF cat.raised THEN [raised |-> TRUE, val |-> <<>>]
       ELSE Returned(SortRows([i \in 1..Len(all_areas) |->
                [area |-> all_areas[i], n_locales |-> n_locales[i],
                 categoria |-> cat.val[i]]]))

compute_opportunities(level, d, gb, gd) ==
    LET all_areas == AllAreas(d, level)
        existing  == IF level = "Barrio" THEN gb ELSE gd
        n_locales == MergeCounts(all_areas, existing)
        cat       == Categoria(n_locales)
    IN IF cat.raised THEN [raised |-> TRUE, val |-> <<>>]
       ELSE Returned(SortRows([i \in 1..Len(all_areas) |->
                [area |-> all_areas[i], n_locales |-> n_locales[i],
                 categoria |-> cat.val[i]]]))

(***************************************************************************)
(* Inputs of the script: rows of the dataset file, boundary files and      *)
(* download responses.                                                     *)
(***************************************************************************)
Row(e, b, d, la, lo) ==
    [desc_epigrafe |-> e, desc_barrio_local |-> b, desc_distrito_local |-> d,
     lat |-> la, lon |-> lo]

\* rows of the file: activities "p", "P", "Q" and "Q" + acute accent;
\* barrios a-acute, "A", "B"; distritos "D", "E"; empty cells are None / NaN
RowTemplates ==
    << Row(<<112>>,      <<225>>, <<68>>, NaN,     NaN),
       Row(<<81>>,       <<66>>,  <<68>>, Num(40), Num(-3)),
       Row(<<112>>,      None,    <<68>>, NaN,     NaN),
       Row(<<81>>,       <<225>>, None,   NaN,     Num(-3)),
       Row(<<80>>,       <<66>>,  <<69>>, NaN,     NaN),
       Row(<<81, 180>>,  <<65>>,  <<69>>, Num(40), Num(-3)),
       Row(<<81>>,       <<66>>,  None,   NaN,     NaN),
       Row(None,         None,    None,   NaN,     NaN) >>

Datasets ==
    {[i \in 1..Len(t) |-> RowTemplates[t[i]]] :
        t \in {u \in SeqsUpTo(1..Len(RowTemplates), MaxRecords) :
                  \A i \in 1..(Len(u) - 1) : u[i] <= u[i + 1]}}

Pt(x, y) == <<Num(x), Num(y)>>

Polygon(ring) == [type |-> "Polygon", coordinates |-> <<ring>>]

Feature(name, geometry) == [name |-> name, geometry |-> geometry]

File(features) == [state |-> "ok", features |-> features]

Unread == [state |-> "unread", features |-> <<>>]

\* geometries: two well-formed ones, a Point, a Polygon without rings, and a
\* Polygon one of whose vertices holds NaN as x
GeomA == Polygon(<<Pt(2, 4), Pt(4, 8), Pt(6, 9)>>)
GeomMulti ==
    [type |-> "MultiPolygon",
     coordinates |-> << <<  <<Pt(1, 1), Pt(2, 2)>>  >>, <<  <<Pt(9, 9)>>  >> >>]
GeomPoint == [type |-> "Point", coordinates |-> <<>>]
GeomNoRing == [type |-> "Polygon", coordinates |-> <<>>]
GeomNaNx == Polygon(<< <<NaN, Num(5)>>, Pt(3, 7) >>)
GeomD == Polygon(<<Pt(10, 20), Pt(30, 40)>>)

BarrioFiles ==
    { [state |-> "absent", features |-> <<>>],
      [state |-> "unparseable", features |-> <<>>],
      File(<<>>),
      File(<<Feature(<<65>>, GeomA)>>),
      File(<<Feature(<<97>>, GeomMulti), Feature(<<66>>, GeomA)>>),
      File(<<Feature(<<65>>, GeomPoint)>>),
      File(<<Feature(<<65>>, GeomNoRing), Feature(None, GeomA)>>),
      File(<<Feature(<<65>>, GeomNaNx)>>),
      File(<<Feature(<<32>>, GeomA)>>) }

DistritoFiles ==
    { [state |-> "absent", features |-> <<>>],
      [state |-> "unparseable", features |-> <<>>],
      File(<<Feature(<<68>>, GeomD)>>),
      File(<<Feature(<<68>>, GeomPoint), Feature(<<69>>, GeomD)>>),
      File(<<Feature(<<>>, GeomD)>>) }

\* what requests.get does for one URL: it raises, or it returns a response
Responses ==
    [exception : {TRUE}, status : {0}, html : {FALSE}, size : {0}]
    \cup [exception : {FALSE}, status : {200, 404}, html : BOOLEAN,
          size : {0, MinBytes, MinBytes + 1}]

(***************************************************************************)
(* download_csv_from_drive and ensure_dataset_available (src lines 43-102) *)
(***************************************************************************)
\* mutant of Accepted: a file of exactly the threshold size is kept
Accepted_AtLeast(resp) ==
    /\ ~resp.exception
    /\ resp.status = 200
    /\ ~resp.html
    /\ resp.size >= MinBytes

\* src lines 63 and 68: the response is saved and the saved file is kept
Accepted(resp) ==
    /\ ~resp.exception
    /\ resp.status = 200
    /\ ~resp.html
    /\ resp.size > MinBytes

NoIndex == [raised |-> FALSE, isNone |-> TRUE, geo |-> <<>>, items |-> <<>>]

\* folium.Map(...) of src line 799: no choropleth layer, no marker
NoMap == [layer |-> "none", shapes |-> <<>>, markers |-> <<>>]

\* the namespace of a script run before the script assigns anything
FreshRun ==
    /\ df = <<>>
    /\ barrios_index = NoIndex
    /\ distritos_index = NoIndex
    /\ actividad_sel = None
    /\ opcion = "Barrio"
    /\ grupo_barrio = <<>>
    /\ grupo_distrito = <<>>
    /\ tabla_op = Returned(<<>>)
    /\ df_plot = <<>>
    /\ pintar = "Barrio"
    /\ show_points = TRUE
    /\ mapa = NoMap

Init ==
    /\ nx = None /\ ny = None /\ nz = None /\ npc = "off"
    /\ csv_file \in {"absent", "empty", "present"}
    /\ csv = <<>>
    /\ barrios_file = Unread
    /\ distritos_file = Unread
    /\ pc = "ensure"
    /\ runs = 1
    /\ ensure_cache = FALSE
    /\ load_cache = [hit |-> FALSE, value |-> <<>>]
    /\ computed = [load_data |-> 0, barrios |-> 0, distritos |-> 0, completion |-> 0]
    /\ dl_log = <<>>
    /\ success = FALSE
    /\ FreshRun

\* src lines 90-99, memo hit or file found
EnsureFound ==
    /\ pc = "ensure"
    /\ ensure_cache \/ csv_file = "present"
    /\ ensure_cache' = TRUE
    /\ pc' = "load"
    /\ UNCHANGED <<normVars, envVars, runs, load_cache, computed, dlVars, runVars>>

\* src lines 97-102: the file exists and is empty
EnsureEmpty ==
    /\ pc = "ensure"
    /\ ~ensure_cache /\ csv_file = "empty"
    /\ pc' = "stopped_empty"
    /\ UNCHANGED <<normVars, envVars, runs, ensure_cache, load_cache, computed,
                   dlVars, runVars>>

\* src lines 93-95 and 46-56: the file is missing, the download loop starts
EnsureMissing ==
    /\ pc = "ensure"
    /\ ~ensure_cache /\ csv_file = "absent"
    /\ pc' = "download"
    /\ dl_log' = <<>>
    /\ success' = FALSE
    /\ UNCHANGED <<normVars, envVars, runs, ensure_cache, load_cache, computed, runVars>>

\* src lines 57-77: one iteration of the loop over urls_to_try
TryUrlWith(resp) ==
    /\ pc = "download"
    /\ ~success
    /\ Len(dl_log) < 3
    /\ dl_log' = Append(dl_log, [url |-> Len(dl_log) + 1, response |-> resp])
    /\ success' = Accepted(resp)
    /\ csv_file' = IF Accepted(resp) THEN "present" ELSE "absent"
    /\ UNCHANGED <<normVars, csv, barrios_file, distritos_file, procVars, runVars>>

TryUrl == \E resp \in Responses : TryUrlWith(resp)

\* src lines 71, 79 and 97-99: the loop was left by break
DownloadReturn ==
    /\ pc = "download"
    /\ success
    /\ ensure_cache' = TRUE
    /\ pc' = "load"
    /\ dl_log' = <<>>
    /\ success' = FALSE
    /\ UNCHANGED <<normVars, envVars, runs, load_cache, computed, runVars>>

\* src lines 79-87: the loop ran out of URLs
DownloadHalt ==
    /\ pc = "download"
    /\ ~success
    /\ Len(dl_log) = 3
    /\ pc' = "stopped_download"
    /\ UNCHANGED <<normVars, envVars, runs, ensure_cache, load_cache, computed,
                   dlVars, runVars>>

(***************************************************************************)
(* The script body (src lines 694-905), one action per step.               *)
(***************************************************************************)
\* src line 699, memo miss: the body of load_data runs on the file's rows
LoadDataMiss ==
    /\ pc = "load"
    /\ ~load_cache.hit
    /\ \E rows \in Datasets :
          /\ csv' = rows
          /\ df' = load_data(rows)
          /\ load_cache' = [hit |-> TRUE, value |-> load_data(rows)]
    /\ computed' = [computed EXCEPT !.load_data = @ + 1]
    /\ pc' = "geo_barrios"
    /\ UNCHANGED <<normVars, csv_file, barrios_file, distritos_file, runs,
                   ensure_cache, dlVars, barrios_index, distritos_index,
                   actividad_sel, opcion, grupo_barrio, grupo_distrito, tabla_op,
                   mapVars>>

\* mutant of LoadDataHit: no memo, the body of load_data runs again
LoadDataHit_NoMemo ==
    /\ pc = "load"
    /\ load_cache.hit
    /\ df' = load_data(csv)
    /\ computed' = [computed EXCEPT !.load_data = @ + 1]
    /\ pc' = "geo_barrios"
    /\ UNCHANGED <<normVars, envVars, runs, ensure_cache, load_cache,
                   dlVars, barrios_index, distritos_index, actividad_sel, opcion,
                   grupo_barrio, grupo_distrito, tabla_op, mapVars>>

\* src line 699, memo hit: a copy of the memoized frame
LoadDataHit ==
    /\ pc = "load"
    /\ load_cache.hit
    /\ df' = load_cache.value
    /\ pc' = "geo_barrios"
    /\ UNCHANGED <<normVars, envVars, runs, ensure_cache, load_cache, computed,
                   dlVars, barrios_index, distritos_index, actividad_sel, opcion,
                   grupo_barrio, grupo_distrito, tabla_op, mapVars>>

\* src line 704
LoadBarrios ==
    /\ pc = "geo_barrios"
    /\ \E f \in BarrioFiles :
          /\ barrios_file \in {Unread, f}
          /\ barrios_file' = f
          /\ barrios_index' = load_geojson(f)
          /\ pc' = IF load_geojson(f).raised THEN "crashed" ELSE "geo_distritos"
    /\ computed' = [computed EXCEPT !.barrios = @ + 1]
    /\ UNCHANGED <<normVars, csv_file, csv, distritos_file, runs, ensure_cache,
                   load_cache, dlVars, df, distritos_index, actividad_sel, opcion,
                   grupo_barrio, grupo_distrito, tabla_op, mapVars>>

\* src line 705
LoadDistritos ==
    /\ pc = "geo_distritos"
    /\ \E f \in DistritoFiles :
          /\ distritos_file \in {Unread, f}
          /\ distritos_file' = f
          /\ distritos_index' = load_geojson(f)
          /\ pc' = IF load_geojson(f).raised THEN "crashed" ELSE "fill_barrio"
    /\ computed' = [computed EXCEPT !.distritos = @ + 1]
    /\ UNCHANGED <<normVars, csv_file, csv, barrios_file, runs, ensure_cache,
                   load_cache, dlVars, df, barrios_index, actividad_sel, opcion,
                   grupo_barrio, grupo_distrito, tabla_op, mapVars>>

\* src lines 708-724
FillBarrio ==
    /\ pc = "fill_barrio"
    /\ df' = FillBarrioStage(df, barrios_index, distritos_index)
    /\ pc' = "fill_distrito"
    /\ UNCHANGED <<normVars, envVars, runs, ensure_cache, load_cache, computed,
                   dlVars, barrios_index, distritos_index, actividad_sel, opcion,
                   grupo_barrio, grupo_distrito, tabla_op, mapVars>>

\* src lines 726-739
FillDistrito ==
    /\ pc = "fill_distrito"
    /\ df' = FillDistritoStage(df, barrios_index, distritos_index)
    /\ computed' = [computed EXCEPT !.completion = @ + 1]
    /\ pc' = "sidebar"
    /\ UNCHANGED <<normVars, envVars, runs, ensure_cache, load_cache, dlVars,
                   barrios_index, distritos_index, actividad_sel, opcion,
                   grupo_barrio, grupo_distrito, tabla_op, mapVars>>

\* src lines 761-763
StopNoActivities ==
    /\ pc = "sidebar"
    /\ Actividades(df) = {}
    /\ pc' = "stopped_no_activities"
    /\ UNCHANGED <<normVars, envVars, runs, ensure_cache, load_cache, computed,
                   dlVars, runVars>>

\* src lines 765-905 with the user's choices: filter, aggregation, map, table
RenderWith(sel, choice, points, level) ==
    /\ pc = "sidebar"
    /\ sel \in Actividades(df)
    /\ actividad_sel' = sel
    /\ pintar' = choice
    /\ show_points' = points
    /\ opcion' = level
    /\ df_plot' = FilterActivity(df, sel)
    /\ grupo_barrio' = GroupSize(df_plot', "desc_barrio_local")
    /\ grupo_distrito' = GroupSize(df_plot', "desc_distrito_local")
    /\ LET layer == LayerDrawn(choice, barrios_index, distritos_index,
                               grupo_barrio', grupo_distrito')
       IN IF Nivel(layer, grupo_barrio', grupo_distrito').raised
          THEN /\ mapa' = NoMap
               /\ tabla_op' = tabla_op
               /\ pc' = "crashed"
          ELSE /\ mapa' = BuildMap(choice, points, df_plot',
                                   barrios_index, distritos_index,
                                   grupo_barrio', grupo_distrito')
               /\ tabla_op' = compute_opportunities(level, df, grupo_barrio',
                                                    grupo_distrito')
               /\ pc' = "idle"
    /\ UNCHANGED <<normVars, envVars, runs, ensure_cache, load_cache, computed,
                   dlVars, df, barrios_index, distritos_index>>

Render ==
    \E sel \in Actividades(df), choice \in {"Barrio", "Distrito", "Sin coropleta"},
       points \in BOOLEAN, level \in {"Barrio", "Distrito"} :
        RenderWith(sel, choice, points, level)

\* a user interaction (or a reload after a halt): the script runs again from
\* the top in a fresh namespace; files, memo caches and counters stay
Rerun ==
    /\ pc \in {"idle", "stopped_download", "stopped_empty", "stopped_no_activities",
               "crashed"}
    /\ runs < MaxRuns
    /\ runs' = runs + 1
    /\ pc' = "ensure"
    /\ df' = <<>>
    /\ barrios_index' = NoIndex
    /\ distritos_index' = NoIndex
    /\ actividad_sel' = None
    /\ opcion' = "Barrio"
    /\ grupo_barrio' = <<>>
    /\ grupo_distrito' = <<>>
    /\ tabla_op' = Returned(<<>>)
    /\ df_plot' = <<>>
    /\ pintar' = "Barrio"
    /\ show_points' = TRUE
    /\ mapa' = NoMap
    /\ dl_log' = <<>>
    /\ success' = FALSE
    /\ UNCHANGED <<normVars, envVars, ensure_cache, load_cache, computed>>

Next ==
    \/ EnsureFound \/ EnsureEmpty \/ EnsureMissing
    \/ TryUrl \/ DownloadReturn \/ DownloadHalt
    \/ LoadDataMiss \/ LoadDataHit
    \/ LoadBarrios \/ LoadDistritos
    \/ FillBarrio \/ FillDistrito
    \/ StopNoActivities \/ Render
    \/ Rerun

Spec == Init /\ [][Next]_vars

(***************************************************************************)
(* Specification SpecScorer: the script from the sidebar on, over loaded   *)
(* frames with up to MaxAreas barrios and up to MaxCount businesses of     *)
(* activity "P" in each; two consecutive barrios share a distrito.         *)
(***************************************************************************)
\* "C", "A", "B", "", "AB", "BA", "CA", "D"
ScorerNames ==
    <<  <<67>>, <<65>>, <<66>>, <<>>, <<65, 66>>, <<66, 65>>, <<67, 65>>, <<68>>  >>

\* barrio k holds one business without activity label and c of activity "P"
ScorerRows(k, c) ==
    [j \in 1..(c + 1) |->
        Row(IF j = 1 THEN <<>> ELSE <<80>>,
            ScorerNames[k], ScorerNames[(k + 1) \div 2], Num(40), Num(-3))]

ScorerFrame(cnt) == Flatten([k \in 1..Len(cnt) |-> ScorerRows(k, cnt[k])])

ScorerInit ==
    /\ nx = None /\ ny = None /\ nz = None /\ npc = "off"
    /\ \E n \in 1..MaxAreas : \E cnt \in [1..n -> 0..MaxCount] :
          /\ df = ScorerFrame(cnt)
    /\ csv = df
    /\ load_cache = [hit |-> TRUE, value |-> df]
    /\ csv_file = "present"
    /\ barrios_file = [state |-> "absent", features |-> <<>>]
    /\ distritos_file = [state |-> "absent", features |-> <<>>]
    /\ pc = "sidebar"
    /\ runs = 1
    /\ ensure_cache = TRUE
    /\ computed = [load_data |-> 1, barrios |-> 1, distritos |-> 1, completion |-> 1]
    /\ dl_log = <<>>
    /\ success = FALSE
    /\ barrios_index = NoIndex
    /\ distritos_index = NoIndex
    /\ actividad_sel = None
    /\ opcion = "Barrio"
    /\ grupo_barrio = <<>>
    /\ grupo_distrito = <<>>
    /\ tabla_op = Returned(<<>>)
    /\ df_plot = <<>>
    /\ pintar = "Barrio"
    /\ show_points = TRUE
    /\ mapa = NoMap

\* the sidebar's map controls stay at their defaults (src lines 768-769)
ScorerNext ==
    \E sel \in Actividades(df), level \in {"Barrio", "Distrito"} :
        RenderWith(sel, "Barrio", TRUE, level)

SpecScorer == ScorerInit /\ [][ScorerNext]_vars

(***************************************************************************)
(* Specification SpecNorm: normalize_str applied to a text value, then to  *)
(* its own result.                                                         *)
(***************************************************************************)
NormChars == {32, 65, 97, 180, 225, 769}

NormInputs == {None} \cup SeqsUpTo(NormChars, MaxStrLen)

\* the script is not running
AppOff ==
    /\ csv_file = "absent" /\ csv = <<>>
    /\ barrios_file = Unread /\ distritos_file = Unread
    /\ pc = "off" /\ runs = 0
    /\ ensure_cache = FALSE
    /\ load_cache = [hit |-> FALSE, value |-> <<>>]
    /\ computed = [load_data |-> 0, barrios |-> 0, distritos |-> 0, completion |-> 0]
    /\ dl_log = <<>> /\ success = FALSE
    /\ FreshRun

NormInit ==
    /\ AppOff
    /\ nx \in NormInputs
    /\ ny = None
    /\ nz = None
    /\ npc = "input"

NormalizeOnce ==
    /\ npc = "input"
    /\ ny' = normalize_str(nx)
    /\ npc' = "once"
    /\ UNCHANGED <<nx, nz, appVars>>

NormalizeTwice ==
    /\ npc = "once"
    /\ nz' = normalize_str(ny)
    /\ npc' = "twice"
    /\ UNCHANGED <<nx, ny, appVars>>

NormNext == NormalizeOnce \/ NormalizeTwice

SpecNorm == NormInit /\ [][NormNext]_vars

(***************************************************************************)
(* Properties of normalize_str, checked under SpecNorm.                    *)
(***************************************************************************)
\* C7: normalize_str is idempotent, and a missing value normalizes to "".
C7_Idempotent ==
    /\ (npc \in {"once", "twice"} /\ nx = None) => ny = <<>>
    /\ npc = "twice" => nz = ny

(***************************************************************************)
(* Properties of the script, checked under Spec.                           *)
(***************************************************************************)
Rows == tabla_op.val

AreasOf(d, level) == {d[i][LevelCol(level)] : i \in 1..Len(d)}

GrupoOf(level) == IF level = "Barrio" THEN grupo_barrio ELSE grupo_distrito

\* the records the script selected for the activity, by their area
SelectedIn(area) ==
    {i \in 1..Len(df) : /\ df[i].desc_epigrafe = normalize_str(actividad_sel)
                        /\ df[i][LevelCol(opcion)] = area}

\* C1: the opportunity table has exactly one row for every distinct area name
\* of the area column of the full dataset, so as many rows as distinct areas;
\* an area where the script found no business of the selected activity has
\* count 0.
C1_OneRowPerArea ==
    pc = "idle" =>
        /\ ~tabla_op.raised
        /\ Len(Rows) = Cardinality(AreasOf(df, opcion))
        /\ {Rows[k].area : k \in 1..Len(Rows)} = AreasOf(df, opcion)
        /\ \A k \in 1..Len(Rows) :
              /\ Rows[k].n_locales = Cardinality(SelectedIn(Rows[k].area))
              /\ Rows[k].area \notin Keys(GrupoOf(opcion)) => Rows[k].n_locales = 0

C1_Witness ==
    /\ pc = "idle"
    /\ Len(Rows) = 2
    /\ Rows[1].n_locales = 0
    /\ Rows[2].n_locales > 0
    /\ \E i \in 1..Len(df) : df[i].desc_epigrafe # normalize_str(actividad_sel)

(***************************************************************************)
(* Properties of the opportunity table, checked under SpecScorer.          *)
(***************************************************************************)
\* C2: consecutive rows of the table are in ascending order of count, equal
\* counts in ascending order of area name.
C2_Sorted ==
    pc = "idle" =>
        \A k \in 1..(Len(Rows) - 1) :
            \/ Rows[k].n_locales < Rows[k + 1].n_locales
            \/ /\ Rows[k].n_locales = Rows[k + 1].n_locales
               /\ StrLess(Rows[k].area, Rows[k + 1].area)

\* counts {A: 0, B: 0, C: 3} come out in the order A, B, C
C2_Witness ==
    /\ pc = "idle"
    /\ opcion = "Barrio"
    /\ [k \in 1..Len(Rows) |-> <<Rows[k].area, Rows[k].n_locales>>]
         = << <<<<65>>, 0>>, <<<<66>>, 0>>, <<<<67>>, 3>> >>

\* counts {A: 5, C: 0} come out in the order C, A
C2_WitnessInverted ==
    /\ pc = "idle"
    /\ opcion = "Distrito"
    /\ [k \in 1..Len(Rows) |-> <<Rows[k].area, Rows[k].n_locales>>]
         = << <<<<67>>, 0>>, <<<<65>>, 5>> >>

TierLabels == {"Sin datos", "Muy baja", "Baja", "Media", "Alta"}

Labelled(r) ==
    /\ ~r.raised
    /\ \A i \in 1..Len(r.val) : r.val[i] \in TierLabels

\* C3: tiering raises nothing and gives every row a tier label: in the table,
\* and for the per-area counts of either granularity that the map layer tiers.
C3_TieringTotal ==
    pc = "idle" =>
        /\ ~tabla_op.raised
        /\ Len(Rows) > 0
        /\ \A k \in 1..Len(Rows) : Rows[k].categoria \in TierLabels
        /\ Labelled(quantile_labels(Values(grupo_barrio)))
        /\ Labelled(quantile_labels(Values(grupo_distrito)))

\* the last rung of the ladder: both quantile splits fail on 0,0,0,1,2,3
C3_Witness ==
    /\ pc = "idle"
    /\ opcion = "Barrio"
    /\ [k \in 1..Len(Rows) |-> Rows[k].n_locales] = <<0, 0, 0, 1, 2, 3>>
    /\ [k \in 1..Len(Rows) |-> Rows[k].categoria]
         = <<"Baja", "Baja", "Baja", "Alta", "Alta", "Alta">>

(***************************************************************************)
(* Properties of coordinate completion, checked under Spec.                *)
(***************************************************************************)
\* the frame as load_data returned it in this run, before completion
Loaded == load_cache.value

Completed == pc \in {"sidebar", "idle", "stopped_no_activities"}

Defined(c) == ~IsNaN(c.lat) /\ ~IsNaN(c.lon)

Coords(r) == [lat |-> r.lat, lon |-> r.lon]

NameIn(r, col) == normalize_str(r[col])

HasEntry(index, name) == name \in Keys(index.items)

EntryCentroid(index, name) ==
    feature_centroid(index.items[Get(index.items, name)].value)

BarrioCentroidDefined(r) ==
    /\ HasEntry(barrios_index, NameIn(r, "desc_barrio_local"))
    /\ Defined(EntryCentroid(barrios_index, NameIn(r, "desc_barrio_local")))

DistritoCentroidDefined(r) ==
    /\ HasEntry(distritos_index, NameIn(r, "desc_distrito_local"))
    /\ Defined(EntryCentroid(distritos_index, NameIn(r, "desc_distrito_local")))

\* C4 as stated: a record missing a coordinate whose normalized barrio name has
\* a boundary entry with a defined centroid ends with that centroid.
C4_BarrioCentroidWins_Original ==
    Completed =>
        \A i \in 1..Len(df) :
            (Missing(Loaded[i]) /\ BarrioCentroidDefined(Loaded[i]))
                => Coords(df[i]) =
                      EntryCentroid(barrios_index, NameIn(Loaded[i], "desc_barrio_local"))

\* C4 amended: the same for a record whose normalized barrio name is not empty,
\* also when its distrito has a boundary entry with a defined centroid.
C4_BarrioCentroidWins ==
    Completed =>
        \A i \in 1..Len(df) :
            (/\ Missing(Loaded[i])
             /\ NameIn(Loaded[i], "desc_barrio_local") # <<>>
             /\ BarrioCentroidDefined(Loaded[i]))
                => Coords(df[i]) =
                      EntryCentroid(barrios_index, NameIn(Loaded[i], "desc_barrio_local"))

C4_Witness ==
    /\ Completed
    /\ \E i \in 1..Len(df) :
          /\ Missing(Loaded[i])
          /\ NameIn(Loaded[i], "desc_barrio_local") # <<>>
          /\ BarrioCentroidDefined(Loaded[i])
          /\ NameIn(Loaded[i], "desc_distrito_local") # <<>>
          /\ DistritoCentroidDefined(Loaded[i])
          /\ EntryCentroid(distritos_index, NameIn(Loaded[i], "desc_distrito_local"))
               # EntryCentroid(barrios_index, NameIn(Loaded[i], "desc_barrio_local"))
          /\ Coords(df[i]) =
               EntryCentroid(barrios_index, NameIn(Loaded[i], "desc_barrio_local"))

\* C5 as stated: a record missing a coordinate whose normalized barrio name has
\* no boundary entry, and whose normalized distrito name has one with a defined
\* centroid, ends with the distrito centroid.
C5_DistritoFallback_Original ==
    Completed =>
        \A i \in 1..Len(df) :
            (/\ Missing(Loaded[i])
             /\ ~HasEntry(barrios_index, NameIn(Loaded[i], "desc_barrio_local"))
             /\ DistritoCentroidDefined(Loaded[i]))
                => Coords(df[i]) =
                      EntryCentroid(distritos_index, NameIn(Loaded[i], "desc_distrito_local"))

\* C5 amended: the same for a record whose normalized distrito name is not
\* empty.
C5_DistritoFallback ==
    Completed =>
        \A i \in 1..Len(df) :
            (/\ Missing(Loaded[i])
             /\ ~HasEntry(barrios_index, NameIn(Loaded[i], "desc_barrio_local"))
             /\ NameIn(Loaded[i], "desc_distrito_local") # <<>>
             /\ DistritoCentroidDefined(Loaded[i]))
                => Coords(df[i]) =
                      EntryCentroid(distritos_index, NameIn(Loaded[i], "desc_distrito_local"))

\* the barrios file is absent, the distrito centroid is used
C5_Witness ==
    /\ Completed
    /\ barrios_index.isNone
    /\ \E i \in 1..Len(df) :
          /\ Missing(Loaded[i])
          /\ NameIn(Loaded[i], "desc_barrio_local") # <<>>
          /\ NameIn(Loaded[i], "desc_distrito_local") # <<>>
          /\ DistritoCentroidDefined(Loaded[i])
          /\ Defined(Coords(df[i]))
          /\ Coords(df[i]) =
               EntryCentroid(distritos_index, NameIn(Loaded[i], "desc_distrito_local"))

\* a geometry feature_centroid cannot average: not a Polygon or MultiPolygon,
\* or one without a first ring, or with an empty first ring
Malformed(geom) ==
    \/ geom.type \notin {"Polygon", "MultiPolygon"}
    \/ Len(geom.coordinates) = 0
    \/ Len(geom.coordinates[1]) = 0

Undefined == [lat |-> NaN, lon |-> NaN]

AllFeatures ==
    {barrios_index.geo[k] : k \in 1..Len(barrios_index.geo)}
        \cup {distritos_index.geo[k] : k \in 1..Len(distritos_index.geo)}

\* the centroids completion can find for a record: of its barrio, of its distrito
CandidateCentroids(r) ==
    {EntryCentroid(barrios_index, n) :
        n \in {NameIn(r, "desc_barrio_local")} \cap Keys(barrios_index.items)}
    \cup
    {EntryCentroid(distritos_index, n) :
        n \in {NameIn(r, "desc_distrito_local")} \cap Keys(distritos_index.items)}

\* C6: feature_centroid gives (NaN, NaN) for a malformed geometry; completion
\* never writes an undefined value: a coordinate pair it changed is a centroid
\* with both parts defined; and a record with no matching area, or whose
\* matching areas all have an undefined centroid, keeps the coordinates it had.
C6_NoUndefinedCentroidWritten ==
    /\ \A f \in AllFeatures : Malformed(f.geometry) => feature_centroid(f) = Undefined
    /\ pc \in {"fill_distrito", "sidebar", "idle", "stopped_no_activities"} =>
          \A i \in 1..Len(df) :
              /\ Coords(df[i]) # Coords(Loaded[i]) =>
                    /\ Missing(Loaded[i])
                    /\ Defined(Coords(df[i]))
                    /\ Coords(df[i]) \in CandidateCentroids(Loaded[i])
              /\ (\A c \in CandidateCentroids(Loaded[i]) : ~Defined(c)) =>
                    Coords(df[i]) = Coords(Loaded[i])

\* a record whose only matching area has a centroid with a defined latitude and
\* an undefined longitude stays without coordinates
C6_Witness ==
    /\ Completed
    /\ \E i \in 1..Len(df) :
          /\ Missing(Loaded[i])
          /\ CandidateCentroids(Loaded[i]) # {}
          /\ \A c \in CandidateCentroids(Loaded[i]) : ~IsNaN(c.lat) /\ IsNaN(c.lon)
          /\ IsNaN(df[i].lat)
          /\ Coords(df[i]) = Coords(Loaded[i])

\* C8: a boundary file that is absent or cannot be parsed gives an empty
\* mapping and the script goes on.
C8_BoundaryFileDegrades ==
    /\ barrios_file.state \in {"absent", "unparseable"} =>
          /\ pc # "crashed"
          /\ ~barrios_index.raised
          /\ barrios_index.items = <<>>
    /\ distritos_file.state \in {"absent", "unparseable"} =>
          /\ pc # "crashed"
          /\ ~distritos_index.raised
          /\ distritos_index.items = <<>>

(***************************************************************************)
(* Properties of the download and of memoization, checked under Spec.      *)
(***************************************************************************)
\* a response that is not an HTML page and whose saved file exceeds the
\* threshold (an attempt that raises, or is answered with an error status,
\* has failed)
GoodResponse(resp) ==
    /\ ~resp.exception
    /\ resp.status = 200
    /\ ~resp.html
    /\ resp.size > MinBytes

\* C9: the URLs are tried in the fixed order 1, 2, 3, each at most once; every
\* attempt before the last one was rejected, so the first good response ends
\* the loop; the download halts only after three rejected attempts, and a
\* good response leaves the file in place.
C9_DownloadAttempts ==
    /\ Len(dl_log) <= 3
    /\ \A k \in 1..Len(dl_log) : dl_log[k].url = k
    /\ \A k \in 1..(Len(dl_log) - 1) : ~GoodResponse(dl_log[k].response)
    /\ pc = "download" =>
          /\ success <=> (dl_log # <<>> /\ GoodResponse(dl_log[Len(dl_log)].response))
          /\ success => csv_file = "present"
          /\ ~success => csv_file = "absent"
    /\ pc = "stopped_download" =>
          /\ Len(dl_log) = 3
          /\ \A k \in 1..3 : ~GoodResponse(dl_log[k].response)
          /\ csv_file = "absent"

\* the second URL is accepted after the first one was rejected
C9_Witness ==
    /\ pc = "download"
    /\ success
    /\ Len(dl_log) = 2
    /\ dl_log[1].response.exception

\* three rejected attempts, the run is halted
C9_WitnessHalt ==
    /\ pc = "stopped_download"
    /\ dl_log[1].response.html
    /\ dl_log[2].response.size = MinBytes
    /\ dl_log[3].response.exception

LayerGrupo == IF mapa.layer = "Barrio" THEN grupo_barrio ELSE grupo_distrito

\* a boundary feature carrying the name, up to normalization
SameName(a, b) == a # None /\ b # None /\ normalize_str(a) = normalize_str(b)

\* C11: every match compares normalized text with normalized text.  Records
\* whose activity labels normalize to the same text are selected together; a
\* record missing a coordinate whose area name equals, up to normalization, the
\* name of a boundary feature with a defined centroid is matched to it and so
\* has coordinates after completion; and a boundary feature of the choropleth
\* whose name equals, up to normalization, an area with a count is filled by
\* that count.
C11_NormalizedMatching ==
    /\ pc = "idle" =>
          \A i, j \in 1..Len(csv) :
              normalize_str(csv[i].desc_epigrafe) = normalize_str(csv[j].desc_epigrafe)
                  => ((\E r \in 1..Len(df_plot) : df_plot[r] = df[i])
                         <=> (\E r \in 1..Len(df_plot) : df_plot[r] = df[j]))
    /\ Completed =>
          \A i \in 1..Len(df) :
              /\ (/\ Missing(Loaded[i])
                  /\ normalize_str(csv[i].desc_barrio_local) # <<>>
                  /\ \E k \in 1..Len(barrios_index.geo) :
                        /\ SameName(barrios_index.geo[k].name, csv[i].desc_barrio_local)
                        /\ Defined(EntryCentroid(barrios_index,
                                       normalize_str(barrios_index.geo[k].name))))
                     => Defined(Coords(df[i]))
              /\ (/\ Missing(Loaded[i])
                  /\ normalize_str(csv[i].desc_distrito_local) # <<>>
                  /\ \E k \in 1..Len(distritos_index.geo) :
                        /\ SameName(distritos_index.geo[k].name, csv[i].desc_distrito_local)
                        /\ Defined(EntryCentroid(distritos_index,
                                       normalize_str(distritos_index.geo[k].name))))
                     => Defined(Coords(df[i]))
    /\ (pc = "idle" /\ mapa.layer # "none") =>
          \A k \in 1..Len(mapa.shapes) :
              \A a \in Keys(LayerGrupo) :
                  SameName(mapa.shapes[k].name, a)
                      => /\ mapa.shapes[k].filled
                         /\ mapa.shapes[k].n_locales
                               = LayerGrupo[Get(LayerGrupo, a)].value

(***************************************************************************)
(* Properties of the tiers, checked under Spec and SpecScorer.             *)
(***************************************************************************)
\* the count column and the tier column of the table
Counts == [k \in 1..Len(Rows) |-> Rows[k].n_locales]

Tiers == [k \in 1..Len(Rows) |-> Rows[k].categoria]

Distinct(s) == {s[k] : k \in 1..Len(s)}

\* C12: when the counts of the table hold at most one distinct value (every
\* area 0 included), every row of the table is labelled "Sin datos", the label
\* no quantile split gives.
C12_ConstantCountsNoData ==
    (pc = "idle" /\ Cardinality(Distinct(Counts)) <= 1) =>
        /\ ~tabla_op.raised
        /\ \A k \in 1..Len(Rows) : Rows[k].categoria = "Sin datos"

\* two areas with one business of the activity each
C12_Witness ==
    /\ pc = "idle"
    /\ Counts = <<1, 1>>
    /\ Tiers = <<"Sin datos", "Sin datos">>

\* every area has count 0
C12_WitnessZero ==
    /\ pc = "idle"
    /\ Len(Rows) > 0
    /\ Distinct(Counts) = {0}
    /\ Distinct(Tiers) = {"Sin datos"}

(***************************************************************************)
(* Properties of the counts, checked under Spec.                           *)
(***************************************************************************)
RECURSIVE Sum(_)
Sum(s) == IF s = <<>> THEN 0 ELSE Head(s) + Sum(Tail(s))

\* the records whose normalized activity is the selected activity, with or
\* without coordinates
OfActivity == {i \in 1..Len(df) : df[i].desc_epigrafe = actividad_sel}

\* the count the aggregation of a granularity reports for an area
Reported(grupo, area) ==
    IF area \in Keys(grupo) THEN grupo[Get(grupo, area)].value ELSE 0

\* C13: for each granularity the count of an area is the number of records of
\* the selected activity in that area, with or without coordinates, so the
\* counts add up to the number of records of the selected activity; the table
\* reports these counts; the markers are the records of the selected activity
\* that have both coordinates.
C13_CountsAllSelected ==
    pc = "idle" =>
        /\ \A a \in AreasOf(df, "Barrio") :
              Reported(grupo_barrio, a)
                 = Cardinality({i \in OfActivity : df[i].desc_barrio_local = a})
        /\ \A a \in AreasOf(df, "Distrito") :
              Reported(grupo_distrito, a)
                 = Cardinality({i \in OfActivity : df[i].desc_distrito_local = a})
        /\ Sum(Values(grupo_barrio)) = Cardinality(OfActivity)
        /\ Sum(Values(grupo_distrito)) = Cardinality(OfActivity)
        /\ \A k \in 1..Len(Rows) :
              Rows[k].n_locales
                 = Cardinality({i \in OfActivity : df[i][LevelCol(opcion)] = Rows[k].area})
        /\ show_points =>
              mapa.markers
                 = SelectSeq(SelectSeq(df, LAMBDA r : r.desc_epigrafe = actividad_sel),
                             LAMBDA r : Defined(Coords(r)))

(***************************************************************************)
(* Properties of quantile_labels, checked under SpecScorer on the count    *)
(* column and the tier column of the table.                                *)
(***************************************************************************)
\* the 0/25/50/75/100th percentiles of a series
QuartileEdges(s) == [k \in 1..5 |-> quantile(s, <<k - 1, 4>>)]

Coincide(edges) == \E k \in 1..(Len(edges) - 1) : edges[k] = edges[k + 1]

\* the bin of a count between the distinct edges, bins closed on the right and
\* the lowest edge included in the first
MergedBin(edges, c) ==
    LET below == Cardinality({e \in Distinct(edges) : RatLess(e, Num(c))})
    IN IF below = 0 THEN 1 ELSE below

\* C14: for counts with more than one distinct value, when the five quartile
\* edges are distinct the rows are labelled by quartile, ascending "Muy baja",
\* "Baja", "Media", "Alta"; when edges coincide the rows are labelled by the
\* bins between the merged edges: two rows share a tier exactly when their
\* counts fall in the same merged bin.
C14_QuartilesMergeDuplicates ==
    (pc = "idle" /\ Cardinality(Distinct(Counts)) > 1) =>
        LET edges == QuartileEdges(Counts)
        IN /\ ~tabla_op.raised
           /\ ~Coincide(edges) =>
                 \A k \in 1..Len(Rows) :
                     Tiers[k] = <<"Muy baja", "Baja", "Media", "Alta">>
                                    [MergedBin(edges, Counts[k])]
           /\ Coincide(edges) =>
                 \A k, l \in 1..Len(Rows) :
                     (Tiers[k] = Tiers[l])
                        <=> (MergedBin(edges, Counts[k]) = MergedBin(edges, Counts[l]))

\* the edges of a split into three quantile bins
TercileEdges(s) == [k \in 1..4 |-> quantile(s, <<k - 1, 3>>)]

AtOrBelow(c, x) == RatLeq(Num(c), x)

\* the tier the ladder gives a count c of the series s
LadderTier(s, c) ==
    LET distinct == Cardinality(Distinct(s))
    IN IF distinct = 2
       THEN IF AtOrBelow(c, quantile(s, <<1, 2>>)) THEN "Baja" ELSE "Alta"
       ELSE IF distinct = 3
       THEN IF AtOrBelow(c, quantile(s, <<33, 100>>)) THEN "Muy baja"
            ELSE IF AtOrBelow(c, quantile(s, <<67, 100>>)) THEN "Baja"
            ELSE "Media"
       ELSE IF ~Coincide(TercileEdges(s))
       THEN <<"Baja", "Media", "Alta">>[MergedBin(TercileEdges(s), c)]
       ELSE IF AtOrBelow(c, quantile(s, <<1, 2>>)) THEN "Baja" ELSE "Alta"

\* C15: when the four-way split fails (quartile edges coincide), the rows are
\* labelled by the ladder: two distinct counts, "Baja" at or below the median
\* and "Alta" above; three distinct counts, "Muy baja" at or below the 33rd
\* percentile, "Baja" at or below the 67th, "Media" above; four or more, the
\* three tercile bins "Baja", "Media", "Alta", and when tercile edges coincide
\* too, the median split "Baja" / "Alta".
C15_FallbackLadder ==
    (/\ pc = "idle"
     /\ Cardinality(Distinct(Counts)) > 1
     /\ Coincide(QuartileEdges(Counts))) =>
        /\ ~tabla_op.raised
        /\ \A k \in 1..Len(Rows) : Tiers[k] = LadderTier(Counts, Counts[k])

\* four distinct counts, the three-tier split succeeds
C15_Witness ==
    /\ pc = "idle"
    /\ Counts = <<0, 0, 1, 2, 3>>
    /\ Coincide(QuartileEdges(Counts))
    /\ Tiers = <<"Baja", "Baja", "Media", "Alta", "Alta">>

\* two distinct counts
C15_WitnessTwo ==
    /\ pc = "idle"
    /\ Counts = <<0, 0, 0, 2>>
    /\ Coincide(QuartileEdges(Counts))
    /\ Tiers = <<"Baja", "Baja", "Baja", "Alta">>

\* three distinct counts
C15_WitnessThree ==
    /\ pc = "idle"
    /\ Cardinality(Distinct(Counts)) = 3
    /\ Coincide(QuartileEdges(Counts))
    /\ Distinct(Tiers) = {"Muy baja", "Baja", "Media"}

\* four distinct counts, the three-tier split fails too
C15_WitnessMedian ==
    /\ pc = "idle"
    /\ Cardinality(Distinct(Counts)) = 4
    /\ Coincide(QuartileEdges(Counts))
    /\ Coincide(TercileEdges(Counts))
    /\ Distinct(Tiers) = {"Baja", "Alta"}

\* the order of the tiers; "Sin datos" is given to all rows or to none
TierRank(t) ==
    CASE t = "Sin datos" -> 0
      [] t = "Muy baja"  -> 1
      [] t = "Baja"      -> 2
      [] t = "Media"     -> 3
      [] t = "Alta"      -> 4
      [] OTHER           -> 5

\* tiers is a monotone function of counts
Monotone(counts, tiers) ==
    /\ Len(tiers) = Len(counts)
    /\ \A k \in 1..Len(tiers) : tiers[k] \in TierLabels
    /\ \A k, l \in 1..Len(counts) :
          /\ counts[k] = counts[l] => tiers[k] = tiers[l]
          /\ counts[k] < counts[l] => TierRank(tiers[k]) <= TierRank(tiers[l])

\* C16: in the table, and in the tiers of the per-area counts of either
\* granularity, equal counts have equal tiers and a larger count never has a
\* lower tier; the areas with count 0 hold the lowest tier of the table.
C16_TierMonotone ==
    pc = "idle" =>
        /\ ~tabla_op.raised
        /\ Monotone(Counts, Tiers)
        /\ \A k, l \in 1..Len(Rows) :
              Counts[k] = 0 => TierRank(Tiers[k]) <= TierRank(Tiers[l])
        /\ Monotone(Values(grupo_barrio), quantile_labels(Values(grupo_barrio)).val)
        /\ Monotone(Values(grupo_distrito), quantile_labels(Values(grupo_distrito)).val)

\* areas with different counts share a tier, others are in ascending tiers
C16_Witness ==
    /\ pc = "idle"
    /\ \E k, l \in 1..Len(Rows) : Counts[k] = 0 /\ Counts[l] > 0 /\ Tiers[k] = Tiers[l]
    /\ \E k, l \in 1..Len(Rows) :
          Counts[k] < Counts[l] /\ TierRank(Tiers[k]) < TierRank(Tiers[l])

(***************************************************************************)
(* The frame of coordinate completion, checked under Spec.                 *)
(***************************************************************************)
\* the fields of a record other than its coordinates
Text(r) == <<r.desc_epigrafe, r.desc_barrio_local, r.desc_distrito_local>>

\* a stage finds a defined centroid for a record: its name in the stage's
\* column is not empty and has a boundary entry whose centroid is defined
FindsCentroid(r, index, col) ==
    /\ NameIn(r, col) # <<>>
    /\ HasEntry(index, NameIn(r, col))
    /\ Defined(EntryCentroid(index, NameIn(r, col)))

\* what a stage may do: keep number and order of the records, keep every field
\* but lat and lon, keep the records that had both coordinates, and keep the
\* coordinates of a record the stage finds no defined centroid for
StageFrame(before, after, index, col) ==
    /\ Len(after) = Len(before)
    /\ \A i \in 1..Len(before) :
          /\ Text(after[i]) = Text(before[i])
          /\ ~Missing(before[i]) => after[i] = before[i]
          /\ ~FindsCentroid(before[i], index, col)
                => Coords(after[i]) = Coords(before[i])

\* C17: each stage of the completion respects this frame, and so does the
\* completion as a whole: after it the frame has the records load_data
\* returned, in their order, with the same text fields, and the records that
\* had both coordinates unchanged.
C17_CompletionFrame ==
    /\ [][/\ (pc = "fill_barrio" /\ pc' # pc)
                => StageFrame(df, df', barrios_index, "desc_barrio_local")
          /\ (pc = "fill_distrito" /\ pc' # pc)
                => StageFrame(df, df', distritos_index, "desc_distrito_local")]_vars
    /\ [](Completed =>
            /\ Len(df) = Len(Loaded)
            /\ \A i \in 1..Len(df) :
                  /\ Text(df[i]) = Text(Loaded[i])
                  /\ ~Missing(Loaded[i]) => df[i] = Loaded[i])

\* one record is filled while a record of the same area that had both
\* coordinates keeps them
C17_Witness ==
    /\ Completed
    /\ \E i, j \in 1..Len(df) :
          /\ ~Missing(Loaded[i])
          /\ FindsCentroid(Loaded[i], barrios_index, "desc_barrio_local")
          /\ df[i] = Loaded[i]
          /\ Missing(Loaded[j])
          /\ Defined(Coords(df[j]))
          /\ Coords(df[j]) # Coords(df[i])

\* a record with a longitude and no latitude, for which no centroid is found,
\* keeps its longitude while another record is filled
C17_WitnessKept ==
    /\ Completed
    /\ \E i, j \in 1..Len(df) :
          /\ IsNaN(Loaded[i].lat) /\ ~IsNaN(Loaded[i].lon)
          /\ Coords(df[i]) = Coords(Loaded[i])
          /\ Missing(Loaded[j])
          /\ Defined(Coords(df[j]))

=============================================================================
